---- MODULE Spec2Model ----
(***************************************************************************)
(* Node.js runtime version resolution                                      *)
(* (packages/now-build-utils/src/fs/node-version.ts).                      *)
(*                                                                         *)
(* The module-level constants of node-version.ts (allOptions,              *)
(* supportedOptions, pleaseUse, pleaseAdd) are computed once, when the     *)
(* module is loaded; getSupportedNodeVersion reads them and the clock      *)
(* (Date.now()) on every call.  The state machine is: load the module at   *)
(* some instant, let time pass, call getSupportedNodeVersion.              *)
(*                                                                         *)
(* Time is counted in ticks, TicksPerDay ticks to a UTC day.  A            *)
(* discontinueDate is written `new Date('YYYY-MM-DD')`, i.e. UTC midnight, *)
(* so it is a multiple of TicksPerDay.  The three entries of allOptions    *)
(* (major, range, runtime) are those of the source; their discontinue      *)
(* dates are release data, so the model checks the function for every      *)
(* assignment of dates to the three entries, the released one (only        *)
(* 8.10.x dated) included.                                                 *)
(***************************************************************************)
EXTENDS Integers, Sequences, FiniteSets, TLC

VARIABLES
    allOptions,        \* node-version.ts:7   the option table, newest first
    supportedOptions,  \* node-version.ts:18  filtered once, at module load
    now,               \* Date.now(), in ticks
    res,               \* observation of the last call made at the current instant
                       \* (arguments, instant, result); NoCall once time passes
    returned,          \* ranges of the dated options some call has returned so far
    failed,            \* ranges of the options some call reported discontinued
    frames,            \* the calls of getSupportedNodeVersion in flight, by caller
    slots,             \* node-version.ts:42  the `selection` variable of each call
    certRun,           \* part_002:9  the invocation of createCertificateForAlias
    files,             \* now-scale.js: the project directories on disk
    userFiles,         \* the project directories as the user left them
    GLOBAL_EXIT_HANDLER, \* now-scale.js:296 (the dir its closure holds)
    process,           \* process.env, the 'exit' listeners, whether it exited
    calls              \* the Gatsby calls made so far, in order

nodeVars == <<allOptions, supportedOptions, now, res, returned, failed>>

asyncVars == <<frames, slots>>

certVars == <<certRun>>

gatsbyVars == <<files, userFiles, GLOBAL_EXIT_HANDLER, process, calls>>

vars == <<nodeVars, asyncVars, certVars, gatsbyVars>>

\* What the actions of one part of the repository leave alone.
outsideNode == <<asyncVars, certVars, gatsbyVars>>

outsideAsync == <<nodeVars, certVars, gatsbyVars>>

outsideCert == <<nodeVars, asyncVars, gatsbyVars>>

outsideGatsby == <<nodeVars, asyncVars, certVars>>

-----------------------------------------------------------------------------
(* Bounds *)

MaxDay == 2      \* discontinue dates fall on days 1..MaxDay
MaxTime == 4     \* the clock runs over ticks 0..MaxTime
NCallers == 2    \* callers with a call of getSupportedNodeVersion in flight

-----------------------------------------------------------------------------
(* Values *)

\* One UTC day, in ticks (toISOString().split('T')[0] drops the time of day).
TicksPerDay == 2

\* `discontinueDate` left out of a NodeVersion literal.
NoDate == -1

\* JavaScript `undefined` passed (or left out) as engineRange.
Undefined == "<undefined>"

INVALID == "NOW_BUILD_UTILS_NODE_VERSION_INVALID"
DISCONTINUED == "NOW_BUILD_UTILS_NODE_VERSION_DISCONTINUED"

NodeVersion(major, range, runtime, discontinueDate) ==
    [major |-> major, range |-> range, runtime |-> runtime,
     discontinueDate |-> discontinueDate]

\* The values `discontinueDate` can take in a release of the table.
DateChoices == {NoDate} \cup {d * TicksPerDay : d \in 1..MaxDay}

\* allOptions as written, for given discontinue dates of its three entries.
AllOptionsWith(d12, d10, d8) ==
    << NodeVersion(12, "12.x", "nodejs12.x", d12),
       NodeVersion(10, "10.x", "nodejs10.x", d10),
       NodeVersion(8, "8.10.x", "nodejs8.10", d8) >>

-----------------------------------------------------------------------------
(* semver: ranges as sets of versions <<major, minor>> *)

Versions == {6, 8, 10, 12, 14} \X {9, 10}

\* The range strings the model passes as engineRange besides Undefined.
ValidRanges ==
    {"", "12.x", "10.x", "8.10.x", "8.9.x", "6.x", ">=10", "<11"}
InvalidRanges == {"foo"}
EngineRanges == {Undefined} \cup ValidRanges \cup InvalidRanges

\* semver.satisfies(v, r) for a range semver can parse.  "" is "*".
satisfies(v, r) ==
    CASE r = ""       -> TRUE
      [] r = "12.x"   -> v[1] = 12
      [] r = "10.x"   -> v[1] = 10
      [] r = "8.10.x" -> v[1] = 8 /\ v[2] = 10
      [] r = "8.9.x"  -> v[1] = 8 /\ v[2] = 9
      [] r = "6.x"    -> v[1] = 6
      [] r = ">=10"   -> v[1] >= 10
      [] r = "<11"    -> v[1] < 11
      [] OTHER        -> FALSE

\* `new Range(r)` succeeds; for any other string it throws a TypeError.
validRange(r) == r \in ValidRanges

\* semver.intersects(r1, r2) for two parseable ranges: some version
\* satisfies both.
intersects(r1, r2) ==
    \E v \in Versions : satisfies(v, r1) /\ satisfies(v, r2)

-----------------------------------------------------------------------------
(* node-version.ts *)

\* Bug variant: `engineRange !== undefined`, true of the empty string.
Truthy_defined(s) == s # Undefined

\* ToBoolean of a `string | undefined`: `if (engineRange)`.
Truthy(s) == s # Undefined /\ s # ""

\* Bug variant: the option counts as discontinued on the instant of its
\* date only (`===` for `<=`).
isDiscontinued_atDate(o, today) ==
    o.discontinueDate # NoDate /\ o.discontinueDate = today

\* Bug variant: the comparison is written the wrong way round.
isDiscontinued_reversed(o, today) ==
    o.discontinueDate # NoDate /\ o.discontinueDate >= today

\* Bug variant: `<` for `<=`, the instant of the date itself is let through.
isDiscontinued_strict(o, today) ==
    o.discontinueDate # NoDate /\ o.discontinueDate < today

isDiscontinued(o, today) ==
    o.discontinueDate # NoDate /\ o.discontinueDate <= today

RECURSIVE filter(_, _)
\* opts.filter(o => !isDiscontinued(o)) with Date.now() = today
filter(opts, today) ==
    IF opts = <<>> THEN <<>>
    ELSE IF ~isDiscontinued(Head(opts), today)
         THEN <<Head(opts)>> \o filter(Tail(opts), today)
         ELSE filter(Tail(opts), today)

RECURSIVE map_range(_)
\* opts.map(o => o.range)
map_range(opts) ==
    IF opts = <<>> THEN <<>>
    ELSE <<Head(opts).range>> \o map_range(Tail(opts))

\* JSON.stringify of an array of strings, as tokens
JSON_stringify(a) == <<"[">> \o a \o <<"]">>

\* Bug variant: the default is the first (newest) entry.
getOldestNodeVersion_first == allOptions[1]

getOldestNodeVersion == allOptions[Len(allOptions)]

getLatestNodeVersion == allOptions[1]

pleaseUse ==
    <<"Please use one of the following engines in your package.json: ">>
        \o JSON_stringify(map_range(supportedOptions))

\* (the quotes and backquotes inside the texts are left out of the tokens)
pleaseAdd ==
    <<"Please add engines: { node: ", getLatestNodeVersion.range,
      " } to your package.json file.">>

upstreamProvider ==
    <<"This change is the result of a decision made by an upstream infrastructure provider (AWS).",
      "\n",
      "Read more: https://docs.aws.amazon.com/lambda/latest/dg/runtime-support-policy.html">>

\* selection.discontinueDate.toISOString().split('T')[0]: the UTC day of
\* the instant, its time of day dropped.
toISODate(t) == ToString(t \div TicksPerDay)

\* A value the function gives to the outside, in the order it does so:
\* a debug line, a console.warn, and last the return or the throw.
Effect(op, code, text, value) ==
    [op |-> op, code |-> code, text |-> text, value |-> value]

\* Placeholder for `value` in an effect that carries no NodeVersion.
NoOption == NodeVersion(0, "", "", NoDate)

RECURSIVE some_last(_, _, _)
\* Bug variant: the scan does not stop at the first match, so the last
\* (oldest) matching option overwrites the newer ones.
some_last(i, selection, engineRange) ==
    IF i > Len(allOptions)
    THEN [how |-> IF \E j \in 1..Len(allOptions) :
                        intersects(allOptions[j].range, engineRange)
                  THEN "found" ELSE "notfound",
          selection |-> selection]
    ELSE LET o == allOptions[i] IN
         IF ~validRange(engineRange)
         THEN [how |-> "threw", selection |-> o]
         ELSE some_last(i + 1,
                        IF intersects(o.range, engineRange) THEN o ELSE selection,
                        engineRange)

RECURSIVE some_skipDiscontinued(_, _, _)
\* Bug variant: the scan passes over a discontinued option and settles on
\* the next, older option that matches.
some_skipDiscontinued(i, selection, engineRange) ==
    IF i > Len(allOptions)
    THEN [how |-> "notfound", selection |-> selection]
    ELSE LET o == allOptions[i] IN
         IF ~validRange(engineRange)
         THEN [how |-> "threw", selection |-> o]
         ELSE IF intersects(o.range, engineRange)
                 /\ ~(o.discontinueDate # NoDate /\ o.discontinueDate <= now)
              THEN [how |-> "found", selection |-> o]
              ELSE some_skipDiscontinued(i + 1, o, engineRange)

RECURSIVE some_fallback(_, _, _)
\* Bug variant: a scan that matches nothing keeps the default (oldest)
\* option instead of reporting the range invalid.
some_fallback(i, selection, engineRange) ==
    IF i > Len(allOptions)
    THEN [how |-> "found", selection |-> allOptions[Len(allOptions)]]
    ELSE LET o == allOptions[i] IN
         IF ~validRange(engineRange)
         THEN [how |-> "threw", selection |-> o]
         ELSE IF intersects(o.range, engineRange)
              THEN [how |-> "found", selection |-> o]
              ELSE some_fallback(i + 1, o, engineRange)

RECURSIVE some(_, _, _)
\* Lines 45-50: allOptions.some(o => { selection = o;
\*                                      return intersects(o.range, engineRange) })
\* from index i on, `selection` being the variable's value so far.
\* intersects builds `new Range(engineRange)` and throws when it cannot.
some(i, selection, engineRange) ==
    IF i > Len(allOptions)
    THEN [how |-> "notfound", selection |-> selection]
    ELSE LET o == allOptions[i] IN
         IF ~validRange(engineRange)
         THEN [how |-> "threw", selection |-> o]
         ELSE IF intersects(o.range, engineRange)
              THEN [how |-> "found", selection |-> o]
              ELSE some(i + 1, o, engineRange)

\* Bug variant: an empty string is scanned like any other range.
select_scanEmpty(engineRange) ==
    IF engineRange # Undefined
    THEN some(1, getOldestNodeVersion, engineRange)
    ELSE [how |-> "skipped", selection |-> getOldestNodeVersion]

\* Lines 42-50: the value of `selection` after the scan, and how the scan
\* ended ("skipped": engineRange is falsy and no option was tested).
select(engineRange) ==
    IF Truthy(engineRange)
    THEN some(1, getOldestNodeVersion, engineRange)
    ELSE [how |-> "skipped", selection |-> getOldestNodeVersion]

\* Bug variant: the wording for a user-given range is used for an
\* auto-selected one too.
invalidIntro_explicit(engineRange, isAuto) ==
    <<"Found engines in package.json with an invalid Node.js version range: ",
      engineRange>>

\* Lines 52-56
invalidIntro(engineRange, isAuto) ==
    IF isAuto \/ ~Truthy(engineRange)
    THEN <<"This project is using an invalid version of Node.js and must be changed.">>
    ELSE <<"Found engines in package.json with an invalid Node.js version range: ",
           engineRange>>

\* Bug variant: the two pieces of guidance are swapped.
discontinuedIntro_swapped(engineRange, isAuto) ==
    IF isAuto \/ ~Truthy(engineRange)
    THEN <<"This project is using a discontinued version of Node.js and must be upgraded.",
           "\n">> \o pleaseUse
    ELSE <<"Found engines in package.json with a discontinued Node.js version range: ",
           engineRange, "\n">> \o pleaseAdd

\* Lines 65-73
discontinuedIntro(engineRange, isAuto) ==
    IF isAuto \/ ~Truthy(engineRange)
    THEN <<"This project is using a discontinued version of Node.js and must be upgraded.",
           "\n">> \o pleaseAdd
    ELSE <<"Found engines in package.json with a discontinued Node.js version range: ",
           engineRange, "\n">> \o pleaseUse

\* Lines 80-86
debugText(selection, engineRange, isAuto) ==
    IF isAuto \/ ~Truthy(engineRange)
    THEN <<"Using default Node.js range: ", selection.range>>
    ELSE <<(IF Truthy(engineRange) THEN "Found" ELSE "Missing"),
           " engines in package.json, selecting range: ", selection.range>>

\* Bug variant: `selection.discontinueDate !== null`, true of undefined too.
warns_notNull(selection) == TRUE

\* Line 88: `if (selection.discontinueDate)`, a Date object being truthy.
warns(selection) == selection.discontinueDate # NoDate

\* Lines 89-102: the text handed to console.warn (the box drawn around it
\* by boxen is left out).
warnText(selection, engineRange, isAuto) ==
    <<"NOTICE", "\n", "\nNode.js version ", selection.range,
      " has reached end-of-life.",
      "\nAs a result, deployments created on or after ",
      toISODate(selection.discontinueDate), " will fail to build.", "\n">>
    \o (IF isAuto \/ ~Truthy(engineRange) THEN pleaseAdd ELSE pleaseUse)
    \o <<"\n">> \o upstreamProvider

\* Lines 51-105: what the function does once the scan `s` has ended.
finish(s, engineRange, isAuto, today) ==
    IF s.how = "threw"
    THEN <<Effect("throw", "TypeError", <<"Invalid comparator: ", engineRange>>, NoOption)>>
    ELSE IF s.how = "notfound"
    THEN <<Effect("throw", INVALID,
                  invalidIntro(engineRange, isAuto) \o <<"\n">> \o pleaseUse,
                  NoOption)>>
    ELSE IF isDiscontinued(s.selection, today)
    THEN <<Effect("throw", DISCONTINUED,
                  discontinuedIntro(engineRange, isAuto) \o <<"\n">> \o upstreamProvider,
                  NoOption)>>
    ELSE <<Effect("debug", "", debugText(s.selection, engineRange, isAuto), NoOption)>>
         \o (IF warns(s.selection)
             THEN <<Effect("console.warn", "",
                           warnText(s.selection, engineRange, isAuto), NoOption)>>
             ELSE <<>>)
         \o <<Effect("return", "", <<>>, s.selection)>>

\* Bug variant: an auto-selected range is not scanned, the default is used.
getSupportedNodeVersion_autoDefault(engineRange, isAuto, today) ==
    LET s == select(IF isAuto THEN Undefined ELSE engineRange) IN
    [selection |-> s.selection, how |-> s.how,
     effects |-> finish(s, engineRange, isAuto, today)]

\* Lines 38-106, with Date.now() = today: the selection and the effects.
getSupportedNodeVersion(engineRange, isAuto, today) ==
    LET s == select(engineRange) IN
    [selection |-> s.selection, how |-> s.how,
     effects |-> finish(s, engineRange, isAuto, today)]

-----------------------------------------------------------------------------
(* The state machine *)

\* The record of one call: its arguments, its instant and what it did.
Observation(engineRange, isAuto, today, r) ==
    [engineRange |-> engineRange, isAuto |-> isAuto, today |-> today,
     selection |-> r.selection, how |-> r.how, effects |-> r.effects]

\* No call made yet.
NoCall == Observation(Undefined, FALSE, 0, [selection |-> NoOption, how |-> "", effects |-> <<>>])

\* The last effect of a call: its return or its throw.
Outcome(obs) == obs.effects[Len(obs.effects)]

Callers == 1..NCallers

\* A caller with no call in flight.
IdleFrame ==
    [pc |-> "idle", engineRange |-> Undefined, isAuto |-> FALSE, i |-> 0,
     how |-> "", effects |-> <<>>]

\* No call in flight.
AsyncIdle ==
    /\ frames = [c \in Callers |-> IdleFrame]
    /\ slots = [c \in Callers |-> NoOption]

\* The node-version module, loaded at tick 0 and not called.
NodeLoaded ==
    /\ now = 0
    /\ allOptions = AllOptionsWith(NoDate, NoDate, TicksPerDay)
    /\ supportedOptions = filter(allOptions, now)
    /\ res = NoCall
    /\ returned = {}
    /\ failed = {}

\* createCertificateForAlias is not running.
IdleCert ==
    [pc |-> "idle", alias |-> <<>>, context |-> "", requests |-> <<>>,
     replies |-> <<>>, spinner |-> FALSE, out |-> <<>>,
     outcome |-> [op |-> "none", value |-> ""]]

CertIdle == certRun = IdleCert

\* The directories a build can be pointed at.
Dirs == {"/site", "/docs"}

\* A directory with no file of interest.
NoFiles == [p \in {} |-> <<>>]

\* A process that has registered no listener; id: the value of
\* process.env.VERCEL_ANALYTICS_ID ("" when it is not set).
FreshProcess(id) ==
    [VERCEL_ANALYTICS_ID |-> id, GATSBY_VERCEL_ANALYTICS_ID |-> "",
     exitListeners |-> <<>>, exited |-> FALSE]

\* No Gatsby build has been started.
GatsbyIdle ==
    /\ files = [d \in Dirs |-> NoFiles]
    /\ userFiles = files
    /\ GLOBAL_EXIT_HANDLER = Undefined
    /\ process = FreshProcess("")
    /\ calls = <<>>

\* Module load at some instant: allOptions is the literal, supportedOptions
\* its filter at that instant.
Init ==
    /\ now \in 0..MaxTime
    /\ \E d12 \in DateChoices, d10 \in DateChoices, d8 \in DateChoices :
          allOptions = AllOptionsWith(d12, d10, d8)
    /\ supportedOptions = filter(allOptions, now)
    /\ res = NoCall
    /\ returned = {}
    /\ failed = {}
    /\ AsyncIdle
    /\ CertIdle
    /\ GatsbyIdle

\* Time passes; the finished call is no longer the one under observation.
Tick ==
    /\ now < MaxTime
    /\ now' = now + 1
    /\ res' = NoCall
    /\ UNCHANGED <<allOptions, supportedOptions, returned, failed>>
    /\ UNCHANGED outsideNode

\* Bug variant: a call refreshes the supported list as it ends, so the next
\* call reads a state this one wrote.
Call_refresh ==
    \E engineRange \in EngineRanges, isAuto \in BOOLEAN :
        LET r == getSupportedNodeVersion(engineRange, isAuto, now)
            obs == [engineRange |-> engineRange, isAuto |-> isAuto, today |-> now,
                    selection |-> r.selection, how |-> r.how, effects |-> r.effects]
            out == obs.effects[Len(obs.effects)]
        IN  /\ res' = obs
            /\ supportedOptions' = filter(allOptions, now)
            /\ returned' = IF out.op = "return" /\ out.value.discontinueDate # NoDate
                           THEN returned \cup {out.value.range} ELSE returned
            /\ failed' = IF out.op = "throw" /\ out.code = DISCONTINUED
                         THEN failed \cup {obs.selection.range} ELSE failed
            /\ UNCHANGED <<allOptions, now>>
            /\ UNCHANGED outsideNode

\* One call of getSupportedNodeVersion(engineRange, isAuto), run to its end.
Call ==
    \E engineRange \in EngineRanges, isAuto \in BOOLEAN :
        LET r == getSupportedNodeVersion(engineRange, isAuto, now)
            obs == Observation(engineRange, isAuto, now, r)
            out == Outcome(obs)
        IN  /\ res' = obs
            /\ returned' = IF out.op = "return" /\ out.value.discontinueDate # NoDate
                           THEN returned \cup {out.value.range} ELSE returned
            /\ failed' = IF out.op = "throw" /\ out.code = DISCONTINUED
                         THEN failed \cup {obs.selection.range} ELSE failed
            /\ UNCHANGED <<allOptions, supportedOptions, now>>
            /\ UNCHANGED outsideNode

Next == Tick \/ Call

Spec == Init /\ [][Next]_vars

-----------------------------------------------------------------------------
(* Calls in flight together *)

(***************************************************************************)
(* getSupportedNodeVersion is an async function: every call has its own    *)
(* activation, with its own `selection` (line 42), and gives its result    *)
(* through a promise the caller awaits.  JavaScript runs a body without an *)
(* await to its end before any other call starts; the steps below let the  *)
(* bodies of several callers interleave at every statement, which covers   *)
(* those schedules and more.  All calls are made at one instant.           *)
(***************************************************************************)

\* The ranges the callers pass: no scan, a scan that stops at the second
\* option, at the third, and one that matches nothing.
AsyncRanges == {Undefined, "<11", "8.10.x", "8.9.x"}

\* Bug variant: `selection` is declared once, at module level.
slotOf_module(c) == 1

\* Line 42: `let selection` belongs to the activation of the call.
slotOf(c) == c

\* The module is loaded at the instant the calls are made.
InitAsync ==
    /\ now \in 0..MaxTime
    /\ \E d8 \in DateChoices \ {NoDate} :
          allOptions = AllOptionsWith(NoDate, NoDate, d8)
    /\ supportedOptions = filter(allOptions, now)
    /\ res = NoCall
    /\ returned = {}
    /\ failed = {}
    /\ AsyncIdle
    /\ CertIdle
    /\ GatsbyIdle

\* Lines 38-44: caller c calls; selection = getOldestNodeVersion().
Start(c) ==
    /\ frames[c].pc = "idle"
    /\ \E engineRange \in AsyncRanges, isAuto \in BOOLEAN :
          frames' = [frames EXCEPT ![c] =
                        [pc |-> IF Truthy(engineRange) THEN "scan" ELSE "check",
                         engineRange |-> engineRange, isAuto |-> isAuto, i |-> 1,
                         how |-> IF Truthy(engineRange) THEN "" ELSE "skipped",
                         effects |-> <<>>]]
    /\ slots' = [slots EXCEPT ![slotOf(c)] = getOldestNodeVersion]
    /\ UNCHANGED outsideAsync

\* Lines 45-50: one run of the callback of allOptions.some, on option i.
Scan(c) ==
    LET f == frames[c]
        o == allOptions[f.i]
        how == IF ~validRange(f.engineRange) THEN "threw"
               ELSE IF intersects(o.range, f.engineRange) THEN "found"
               ELSE IF f.i = Len(allOptions) THEN "notfound"
               ELSE ""
    IN  /\ f.pc = "scan"
        /\ slots' = [slots EXCEPT ![slotOf(c)] = o]
        /\ frames' = [frames EXCEPT ![c] =
                         [f EXCEPT !.how = how,
                                   !.i = IF how = "" THEN f.i + 1 ELSE f.i,
                                   !.pc = IF how = "" THEN "scan" ELSE "check"]]
        /\ UNCHANGED outsideAsync

\* Lines 51-105: the errors, the warning and the return, from the call's
\* `selection`; the promise is settled.
Settle(c) ==
    LET f == frames[c] IN
    /\ f.pc = "check"
    /\ frames' = [frames EXCEPT ![c] =
                     [f EXCEPT !.pc = "settled",
                               !.effects = finish([how |-> f.how,
                                                   selection |-> slots[slotOf(c)]],
                                                  f.engineRange, f.isAuto, now)]]
    /\ UNCHANGED <<slots, outsideAsync>>

\* The caller awaits the promise and takes its result.
Await(c) ==
    /\ frames[c].pc = "settled"
    /\ frames' = [frames EXCEPT ![c] = IdleFrame]
    /\ UNCHANGED <<slots, outsideAsync>>

NextAsync == \E c \in Callers : Start(c) \/ Scan(c) \/ Settle(c) \/ Await(c)

SpecAsync == InitAsync /\ [][NextAsync]_vars

-----------------------------------------------------------------------------
(* createCertificateForAlias (src/unnamed/part_002) *)

\* Host names are sequences of labels.
Aliases ==
    { <<"example", "com">>, <<"www", "example", "com">>, <<"api", "example", "com">> }

Contexts == {"user", "team"}

\* psl.parse(alias).domain: the registrable domain, the label before the
\* public suffix and the suffix (the aliases above are all under "com").
psl_domain(alias) == SubSeq(alias, Len(alias) - 1, Len(alias))

\* Line 12: [domain, `*.${domain}`].
wildcardCns(alias) == << psl_domain(alias), <<"*">> \o psl_domain(alias) >>

\* The classes of Errors the function tests with instanceof.
ErrorClasses ==
    { "CantGenerateWildcardCert", "DomainConfigurationError",
      "DomainPermissionDenied", "DomainsShouldShareRoot",
      "DomainValidationRunning", "InvalidWildcardDomain",
      "TooManyCertificates", "TooManyRequests" }

\* What an awaited createCertForCns can give: a certificate, an instance of
\* one of the classes above, an error value of a class the function does not
\* test for, or a rejection (the await throws).
Certificate == "Certificate"

UntestedError == "Error"

Rejected == "<rejected>"

Replies == {Certificate, UntestedError, Rejected} \cup ErrorClasses

\* Lines 14-21: the wildcard results that are returned at once.
ReturnedAfterWildcard ==
    { "DomainPermissionDenied", "DomainsShouldShareRoot",
      "DomainValidationRunning", "InvalidWildcardDomain",
      "TooManyCertificates", "TooManyRequests" }

\* Bug variant: only the wildcard failure proper falls back.
FallsBack_wildcardOnly(cert) == cert = "CantGenerateWildcardCert"

\* Lines 28-31: the wildcard results after which a normal certificate is tried.
FallsBack(cert) == cert \in {"CantGenerateWildcardCert", "DomainConfigurationError"}

\* Lines 34-42: the fallback results that are returned.
ReturnedAfterFallback ==
    { "DomainConfigurationError", "DomainPermissionDenied",
      "DomainsShouldShareRoot", "DomainValidationRunning",
      "InvalidWildcardDomain", "TooManyCertificates", "TooManyRequests" }

\* Bug variant: the unexpected wildcard error of the fallback is returned.
Unexpected_never(cert) == FALSE

\* Line 48: the fallback result that is thrown.
Unexpected(cert) == cert = "CantGenerateWildcardCert"

Return(v) == [op |-> "return", value |-> v]

Throw(v) == [op |-> "throw", value |-> v]

InitCert ==
    /\ NodeLoaded
    /\ AsyncIdle
    /\ CertIdle
    /\ GatsbyIdle

\* Lines 9-13: the call, up to the first await: the wait message is shown
\* and the wildcard certificate is requested.
createCertificateForAlias ==
    /\ certRun.pc = "idle"
    /\ \E alias \in Aliases, context \in Contexts :
          certRun' = [pc |-> "wildcard", alias |-> alias, context |-> context,
                      requests |-> << [cns |-> wildcardCns(alias), context |-> context] >>,
                      replies |-> <<>>, spinner |-> TRUE, out |-> <<>>,
                      outcome |-> [op |-> "none", value |-> ""]]
    /\ UNCHANGED outsideCert

\* Lines 13-33 and 55-60: the wildcard request completes and the function
\* runs on to its next await or to its end.
WildcardReply ==
    /\ certRun.pc = "wildcard"
    /\ \E cert \in Replies :
          LET got == [certRun EXCEPT !.replies = Append(@, cert)] IN
          certRun' =
            IF cert = Rejected
            THEN [got EXCEPT !.pc = "done", !.outcome = Throw(cert)]
            ELSE IF cert \in ReturnedAfterWildcard
            THEN [got EXCEPT !.pc = "done", !.spinner = FALSE,
                             !.outcome = Return(cert)]
            ELSE IF FallsBack(cert)
            THEN [got EXCEPT !.pc = "fallback",
                             !.out = Append(@, <<"debug", "Falling back to a normal certificate">>),
                             !.requests = Append(@, [cns |-> <<certRun.alias>>,
                                                     context |-> certRun.context])]
            ELSE [got EXCEPT !.pc = "done", !.spinner = FALSE,
                             !.out = Append(@, <<"log", "Certificate for", wildcardCns(certRun.alias),
                                                 "successfuly created">>),
                             !.outcome = Return(cert)]
    /\ UNCHANGED outsideCert

\* Lines 33-54 and 60: the request for the normal certificate completes.
FallbackReply ==
    /\ certRun.pc = "fallback"
    /\ \E cert \in Replies :
          LET got == [certRun EXCEPT !.replies = Append(@, cert)] IN
          certRun' =
            IF cert = Rejected
            THEN [got EXCEPT !.pc = "done", !.outcome = Throw(cert)]
            ELSE IF cert \in ReturnedAfterFallback
            THEN [got EXCEPT !.pc = "done", !.spinner = FALSE,
                             !.outcome = Return(cert)]
            ELSE IF Unexpected(cert)
            THEN [got EXCEPT !.pc = "done", !.spinner = FALSE,
                             !.outcome = Throw(cert)]
            ELSE [got EXCEPT !.pc = "done", !.spinner = FALSE,
                             !.out = Append(@, <<"log", "Certificate for", certRun.alias,
                                                 "successfuly created">>),
                             !.outcome = Return(cert)]
    /\ UNCHANGED outsideCert

\* The caller has the outcome; the function can be called again.
CertTaken ==
    /\ certRun.pc = "done"
    /\ certRun' = IdleCert
    /\ UNCHANGED outsideCert

NextCert == createCertificateForAlias \/ WildcardReply \/ FallbackReply \/ CertTaken

SpecCert == InitCert /\ [][NextCert]_vars

-----------------------------------------------------------------------------
(* Gatsby plugin injection (src/bin/now-scale.js) *)

MaxCalls == 3    \* injectPlugins and cleanupGatsbyFiles calls in one process

GATSBY_CONFIG_FILE == "gatsby-config"

GATSBY_NODE_FILE == "gatsby-node"

GENERATED_FILE_COMMENT == "// This file was generated by @vercel/static-build"

\* File contents are sequences of text fragments; <<>> is the empty file.
startsWith(content, prefix) == Len(content) >= 1 /\ content[1] = prefix

\* What a user's file can hold: nothing, code, or code under the comment the
\* generated files start with.
UserContents ==
    { <<>>, <<"/* user code */">>, <<GENERATED_FILE_COMMENT, "/* user code */">> }

Endings == {".ts", ".mjs", ".js"}

\* A file of a project directory: `${name}${ending}`, or its backup
\* `${name}${ending}.__vercel_builder_backup__${ending}`.
File(name, ending, backup) == [name |-> name, ending |-> ending, backup |-> backup]

\* fileExists(path)
fileExists(fs, p) == p \in DOMAIN fs

\* fs.writeFile(path, content)
writeFile(fs, p, content) ==
    [q \in DOMAIN fs \cup {p} |-> IF q = p THEN content ELSE fs[q]]

\* fs.rename(from, to), fs.renameSync(from, to)
rename(fs, from, to) ==
    [q \in (DOMAIN fs \ {from}) \cup {to} |-> IF q = to THEN fs[from] ELSE fs[q]]

\* fs.rmSync(path)
rmSync(fs, p) == [q \in DOMAIN fs \ {p} |-> fs[q]]

\* Lines 643-657: the content, or undefined when the file cannot be read;
\* as a set with at most one element.
tryReadFileSync(fs, p) == IF p \in DOMAIN fs THEN {fs[p]} ELSE {}

\* The file written over a user's file: the comment, then code that loads
\* the backup and adds the plugins.
Wrapper(name, ending) ==
    <<GENERATED_FILE_COMMENT, "wrapper of", name, ending, ".__vercel_builder_backup__", ending>>

\* Lines 366-369 and 510-514: the file written when the user has none.
Standalone(name) == <<GENERATED_FILE_COMMENT, "module.exports for", name>>

\* updateGatsbyConfigTs/Mjs/Js and updateGatsbyNodeTs/Mjs/Js: keep the
\* user's file as the backup unless a backup is there, then write the wrapper.
updateFile(fs, name, ending) ==
    LET configPath == File(name, ending, FALSE)
        renamedPath == File(name, ending, TRUE)
        kept == IF ~fileExists(fs, renamedPath)
                THEN rename(fs, configPath, renamedPath)
                ELSE fs
    IN  writeFile(kept, configPath, Wrapper(name, ending))

\* Lines 354-371 and 499-516: .ts before .mjs before .js, else a new .js.
updateGatsby(fs, name) ==
    IF fileExists(fs, File(name, ".ts", FALSE)) THEN updateFile(fs, name, ".ts")
    ELSE IF fileExists(fs, File(name, ".mjs", FALSE)) THEN updateFile(fs, name, ".mjs")
    ELSE IF fileExists(fs, File(name, ".js", FALSE)) THEN updateFile(fs, name, ".js")
    ELSE writeFile(fs, File(name, ".js", FALSE), Standalone(name))

updateGatsbyConfig(fs) == updateGatsby(fs, GATSBY_CONFIG_FILE)

updateGatsbyNode(fs) == updateGatsby(fs, GATSBY_NODE_FILE)

\* Detected versions: none, not a version, below 4, 4.
Null == "<null>"

DetectedVersions == {Null, "latest", "3.14.0", "4.0.0"}

\* semver.coerce: <<major, minor, patch>>, or <<>> for null.
coerce(v) ==
    CASE v = "3.14.0" -> <<3, 14, 0>>
      [] v = "4.0.0" -> <<4, 0, 0>>
      [] OTHER -> <<>>

\* Lines 304-306: the builder plugin is added.
wantsBuilder(detectedVersion) ==
    /\ detectedVersion \notin {Null, ""}
    /\ coerce(detectedVersion) # <<>>
    /\ coerce(detectedVersion)[1] >= 4

\* Line 319: the analytics plugin is added.
wantsAnalytics == process.VERCEL_ANALYTICS_ID # ""

\* Bug variant: every call that adds the builder plugin registers.
registers_everyCall(detectedVersion) == wantsBuilder(detectedVersion)

\* Lines 306-309: this call sets GLOBAL_EXIT_HANDLER and registers it.
registers(detectedVersion) ==
    wantsBuilder(detectedVersion) /\ GLOBAL_EXIT_HANDLER = Undefined

\* Lines 310-312: the directory the closure of the handler holds.
handlerDir(dir) == dir

\* Lines 298-352.
injectPlugins ==
    /\ ~process.exited
    /\ Len(calls) < MaxCalls
    /\ \E detectedVersion \in DetectedVersions, dir \in Dirs :
          LET builder == wantsBuilder(detectedVersion)
              analytics == wantsAnalytics
              reg == registers(detectedVersion)
              withConfig == IF analytics THEN updateGatsbyConfig(files[dir]) ELSE files[dir]
              withNode == IF builder THEN updateGatsbyNode(withConfig) ELSE withConfig
          IN  /\ GLOBAL_EXIT_HANDLER' = IF reg THEN handlerDir(dir) ELSE GLOBAL_EXIT_HANDLER
              /\ process' = [process EXCEPT
                    !.exitListeners = IF reg THEN Append(@, handlerDir(dir)) ELSE @,
                    !.GATSBY_VERCEL_ANALYTICS_ID =
                        IF analytics THEN process.VERCEL_ANALYTICS_ID ELSE @]
              /\ files' = [files EXCEPT ![dir] = withNode]
              /\ calls' = Append(calls,
                    [op |-> "injectPlugins", dir |-> dir,
                     result |-> IF builder \/ analytics THEN "true" ELSE "false",
                     by |-> IF reg THEN detectedVersion ELSE ""])
    /\ UNCHANGED <<userFiles, outsideGatsby>>

\* Lines 597-600: the passes of the two loops of cleanupGatsbyFiles.
CleanupOrder ==
    << <<GATSBY_CONFIG_FILE, ".js">>, <<GATSBY_CONFIG_FILE, ".ts">>,
       <<GATSBY_CONFIG_FILE, ".mjs">>, <<GATSBY_NODE_FILE, ".js">>,
       <<GATSBY_NODE_FILE, ".ts">>, <<GATSBY_NODE_FILE, ".mjs">> >>

\* Lines 609-612: baseFileContent && baseFileContent.startsWith(...).
removesBase(fs, name, ending) ==
    \E content \in tryReadFileSync(fs, File(name, ending, FALSE)) :
        content # <<>> /\ startsWith(content, GENERATED_FILE_COMMENT)

\* Line 616: if (backupFileContent).
restoresBackup(fs, name, ending) ==
    \E content \in tryReadFileSync(fs, File(name, ending, TRUE)) : content # <<>>

\* Lines 601-618: one pass; both files are read before either is touched.
cleanOne(fs, name, ending) ==
    LET removed == IF removesBase(fs, name, ending)
                   THEN rmSync(fs, File(name, ending, FALSE))
                   ELSE fs
    IN  IF restoresBackup(fs, name, ending)
        THEN rename(removed, File(name, ending, TRUE), File(name, ending, FALSE))
        ELSE removed

\* Lines 595-620: the passes from the k-th on.  fails: the first fs call
\* that changes the directory throws (the directory cannot be written).
RECURSIVE cleanFrom(_, _, _)
cleanFrom(fs, k, fails) ==
    IF k > Len(CleanupOrder) THEN [fs |-> fs, threw |-> FALSE]
    ELSE LET name == CleanupOrder[k][1]
             ending == CleanupOrder[k][2]
         IN  IF removesBase(fs, name, ending) \/ restoresBackup(fs, name, ending)
             THEN IF fails
                  THEN [fs |-> fs, threw |-> TRUE]
                  ELSE cleanFrom(cleanOne(fs, name, ending), k + 1, FALSE)
             ELSE cleanFrom(fs, k + 1, fails)

\* process.off('exit', listener): the listener added last goes.
removeListener(ls, h) ==
    LET at == {i \in 1..Len(ls) : ls[i] = h} IN
    IF at = {} THEN ls
    ELSE LET m == CHOOSE i \in at : \A j \in at : j <= i
         IN  SubSeq(ls, 1, m - 1) \o SubSeq(ls, m + 1, Len(ls))

\* Lines 594-628, on st = [files, exitListeners, calls]; op names the caller.
cleanupGatsbyFiles(st, dir, fails, op) ==
    LET r == cleanFrom(st.files[dir], 1, fails) IN
    [files |-> [st.files EXCEPT ![dir] = r.fs],
     exitListeners |-> IF r.threw /\ GLOBAL_EXIT_HANDLER # Undefined
                       THEN removeListener(st.exitListeners, GLOBAL_EXIT_HANDLER)
                       ELSE st.exitListeners,
     calls |-> Append(st.calls, [op |-> op, dir |-> dir,
                                 result |-> IF r.threw THEN "threw" ELSE "done",
                                 by |-> ""])]

\* The build calls cleanupGatsbyFiles(dir).
CallCleanup ==
    /\ ~process.exited
    /\ Len(calls) < MaxCalls
    /\ \E dir \in Dirs, fails \in BOOLEAN :
          LET st == cleanupGatsbyFiles([files |-> files,
                                        exitListeners |-> process.exitListeners,
                                        calls |-> calls],
                                       dir, fails, "cleanupGatsbyFiles")
          IN  /\ files' = st.files
              /\ process' = [process EXCEPT !.exitListeners = st.exitListeners]
              /\ calls' = st.calls
    /\ UNCHANGED <<userFiles, GLOBAL_EXIT_HANDLER, outsideGatsby>>

\* process 'exit' is emitted: the listeners registered at that moment run, in
\* the order they were added; each is the closure of lines 310-312.
RECURSIVE emitExit(_, _, _)
emitExit(st, ls, fails) ==
    IF ls = <<>> THEN st
    ELSE emitExit(cleanupGatsbyFiles(st, Head(ls), fails, "exit handler"),
                  Tail(ls), fails)

\* The process exits.
Exit ==
    /\ ~process.exited
    /\ \E fails \in BOOLEAN :
          LET st == emitExit([files |-> files,
                              exitListeners |-> process.exitListeners,
                              calls |-> calls],
                             process.exitListeners, fails)
          IN  /\ files' = st.files
              /\ process' = [process EXCEPT !.exitListeners = st.exitListeners,
                                            !.exited = TRUE]
              /\ calls' = st.calls
    /\ UNCHANGED <<userFiles, GLOBAL_EXIT_HANDLER, outsideGatsby>>

\* What the user has of one file name: nothing, or one file.
UserChoices ==
    {[ending |-> "", content |-> <<>>]} \cup [ending : Endings, content : UserContents]

\* The directory of a user who has these gatsby-config and gatsby-node.
Layout(config, node) ==
    LET has == {File(GATSBY_CONFIG_FILE, config.ending, FALSE) : x \in {1} \cap {IF config.ending = "" THEN 0 ELSE 1}}
               \cup {File(GATSBY_NODE_FILE, node.ending, FALSE) : x \in {1} \cap {IF node.ending = "" THEN 0 ELSE 1}}
    IN  [p \in has |-> IF p.name = GATSBY_CONFIG_FILE THEN config.content ELSE node.content]

\* A fresh process; /site is any project, /docs one with a gatsby-node.js.
InitGatsby ==
    /\ NodeLoaded
    /\ AsyncIdle
    /\ CertIdle
    /\ \E config \in UserChoices, node \in UserChoices :
          files = [d \in Dirs |->
                      IF d = "/site" THEN Layout(config, node)
                      ELSE Layout([ending |-> "", content |-> <<>>],
                                  [ending |-> ".js", content |-> <<"/* user code */">>])]
    /\ userFiles = files
    /\ GLOBAL_EXIT_HANDLER = Undefined
    /\ \E id \in {"", "an-analytics-id"} : process = FreshProcess(id)
    /\ calls = <<>>

NextGatsby == injectPlugins \/ CallCleanup \/ Exit

SpecGatsby == InitGatsby /\ [][NextGatsby]_vars

-----------------------------------------------------------------------------
(* Vocabulary of the properties *)

Called == res.effects # <<>>

Returns == Called /\ Outcome(res).op = "return"

Throws(code) == Called /\ Outcome(res).op = "throw" /\ Outcome(res).code = code

TypeOK ==
    /\ now \in 0..MaxTime
    /\ Len(allOptions) = 3
    /\ res.how \in {"", "skipped", "found", "notfound", "threw"}

\* An effect of the last call that is a console.warn.
Warned == \E k \in 1..Len(res.effects) : res.effects[k].op = "console.warn"

\* The option's discontinue date is set and not after instant t.
Past(o, t) == o.discontinueDate # NoDate /\ o.discontinueDate <= t

Oldest == allOptions[Len(allOptions)]

Newest == allOptions[1]

\* Some option's range intersects range r (r a range semver can parse).
Matches(r) == \E i \in 1..Len(allOptions) : intersects(allOptions[i].range, r)

\* The first option, newest first, whose range intersects r.
FirstMatch(r) ==
    allOptions[CHOOSE i \in 1..Len(allOptions) :
                  /\ intersects(allOptions[i].range, r)
                  /\ \A j \in 1..(i - 1) : ~intersects(allOptions[j].range, r)]

\* The option a call selected: the one it returned, or the one it reported
\* discontinued.
Selected(o) ==
    \/ Returns /\ Outcome(res).value = o
    \/ Throws(DISCONTINUED) /\ res.selection = o

\* The table as released: only the oldest entry, 8.10.x, carries a date.
ReleasedTable ==
    \E d \in DateChoices \ {NoDate} : allOptions = AllOptionsWith(NoDate, NoDate, d)

-----------------------------------------------------------------------------
(* C1 *)

\* C1: a call with no requested range, whatever isAuto, returns the oldest
\* option when that option is not discontinued at the time of the call and
\* otherwise throws the DISCONTINUED error; it never throws INVALID and never
\* returns another option.
C1_NoRangeGivesOldest ==
    (Called /\ res.engineRange = Undefined) =>
        /\ res.how = "skipped"
        /\ IF Past(Oldest, res.today)
           THEN Throws(DISCONTINUED)
           ELSE Returns /\ Outcome(res).value = Oldest

\* A call without a range fails with DISCONTINUED on the oldest option,
\* which an earlier call of this process had returned; a newer option is
\* still supported.
C1_Witness ==
    /\ Called /\ res.engineRange = Undefined /\ res.isAuto
    /\ Throws(DISCONTINUED)
    /\ Oldest.range \in returned
    /\ ~Past(Newest, res.today)

-----------------------------------------------------------------------------
(* C2 *)

\* C2 as stated: for every requested range (given as a string, the empty one
\* included) that intersects some option's range, the selected option is the
\* first option, newest first, whose range intersects it.  Read on the
\* released table.
C2_AsStated ==
    (/\ ReleasedTable
     /\ Called /\ res.engineRange # Undefined /\ validRange(res.engineRange)
     /\ Matches(res.engineRange))
        => Selected(FirstMatch(res.engineRange))

\* C2 (amended): for every non-empty requested range that intersects at
\* least one option's range, the option selected (returned, or reported
\* discontinued) is the first option in newest-to-oldest order whose range
\* intersects it; a range that intersects the newest option's range selects
\* the newest option, also when older options intersect it too.
C2_NewestMatchWins ==
    (/\ Called /\ Truthy(res.engineRange) /\ validRange(res.engineRange)
     /\ Matches(res.engineRange))
        => /\ Selected(FirstMatch(res.engineRange))
           /\ intersects(Newest.range, res.engineRange) => Selected(Newest)

\* ">=10" intersects 12.x and 10.x; the call returns 12.x.
C2_Witness ==
    /\ Called /\ res.engineRange = ">=10"
    /\ intersects(allOptions[2].range, res.engineRange)
    /\ Returns /\ Outcome(res).value = Newest

-----------------------------------------------------------------------------
(* C3 *)

\* C3: for every requested range that is present and intersects no option's
\* range, the call throws INVALID and returns no option: no fallback to the
\* oldest option, no DISCONTINUED, no warning, for both values of isAuto and
\* whether or not the oldest option is discontinued.
C3_NoMatchIsInvalid ==
    (/\ Called /\ Truthy(res.engineRange) /\ validRange(res.engineRange)
     /\ ~Matches(res.engineRange))
        => /\ Throws(INVALID)
           /\ Len(res.effects) = 1
           /\ Outcome(res).value = NoOption
           /\ ~Warned

\* "8.9.x" shares its major with 8.10.x and intersects nothing; the oldest
\* option is discontinued at the time of the call; the call throws INVALID.
C3_Witness ==
    /\ Called /\ res.engineRange = "8.9.x" /\ res.isAuto
    /\ Past(Oldest, res.today)
    /\ Throws(INVALID)

-----------------------------------------------------------------------------
(* C4 *)

\* The ranges listed between "[" and "]" in a message.
Listed(text) ==
    LET a == CHOOSE k \in 1..Len(text) : text[k] = "["
        b == CHOOSE k \in 1..Len(text) : text[k] = "]"
    IN  {text[k] : k \in (a + 1)..(b - 1)}

\* The ranges of the options not discontinued at instant t.
SupportedAt(t) ==
    {allOptions[i].range : i \in {j \in 1..Len(allOptions) : ~Past(allOptions[j], t)}}

\* C4: whenever a call throws INVALID, the ranges listed in its message are
\* exactly the ranges of the options not discontinued at the time of that
\* call, for both values of isAuto and at any time in the life of the
\* process.  Read on the released table.
C4_ListIsCurrent ==
    (ReleasedTable /\ Throws(INVALID))
        => Listed(Outcome(res).text) = SupportedAt(res.today)

-----------------------------------------------------------------------------
(* C5 *)

\* C5: whenever the option selected by a call (the default, or the first
\* match of the scan) has a discontinue date that is not in the future at
\* the time of the call, the call throws DISCONTINUED, whatever the range
\* and isAuto; an option a call returns is never discontinued at the time
\* of the call.
C5_DiscontinuedSelectionFails ==
    /\ (Called /\ res.how \in {"skipped", "found"} /\ Past(res.selection, res.today))
          => (Throws(DISCONTINUED) /\ Outcome(res).value = NoOption)
    /\ Returns => ~Past(Outcome(res).value, res.today)

\* A user-given range matched 10.x, whose date passed before the call (not
\* on the instant of the call), while the oldest option has no date.
C5_Witness ==
    /\ Called /\ res.how = "found" /\ ~res.isAuto
    /\ res.selection = allOptions[2]
    /\ Past(res.selection, res.today - 1)
    /\ Oldest.discontinueDate = NoDate
    /\ Throws(DISCONTINUED)

-----------------------------------------------------------------------------
(* C6 *)

-----------------------------------------------------------------------------
(* C7 *)

\* What a caller can tell of a call apart from the wording: how it ended
\* (return, or the code of the error), the option it ended on, and whether
\* it warned.
Decision(r) ==
    LET last == r.effects[Len(r.effects)] IN
    [op |-> last.op, code |-> last.code, value |-> last.value,
     selection |-> r.selection,
     warned |-> \E k \in 1..Len(r.effects) : r.effects[k].op = "console.warn"]

\* C7: isAuto changes the wording only: for every range, absent or present,
\* and every instant, the call with isAuto = TRUE and the call with
\* isAuto = FALSE end the same way (return, INVALID or DISCONTINUED), on the
\* same option, with the same decision to warn.
C7_IsAutoOnlyWording ==
    Called =>
        Decision(res) =
            Decision(getSupportedNodeVersion(res.engineRange, ~res.isAuto, res.today))

\* An auto-selected range that matched an option with a date still to
\* come: returned, with a warning.
C7_Witness ==
    /\ Called /\ res.isAuto /\ res.how = "found"
    /\ res.selection # Oldest
    /\ Returns /\ Warned

-----------------------------------------------------------------------------
(* C8 *)

\* The positions of the console.warn effects of the last call.
WarnAt == {k \in 1..Len(res.effects) : res.effects[k].op = "console.warn"}

\* Token tok occurs in text.
Mentions(text, tok) == \E k \in 1..Len(text) : text[k] = tok

\* C8: a call warns if and only if it returns and the returned option has a
\* discontinue date (then in the future); it never warns when the returned
\* option has no date, nor when it throws INVALID or DISCONTINUED; the
\* warning comes once, before the return, and mentions the option's date.
C8_WarnIffAnnounced ==
    Called =>
        /\ Warned <=> (Returns /\ Outcome(res).value.discontinueDate # NoDate)
        /\ Warned =>
              /\ Outcome(res).value.discontinueDate > res.today
              /\ Cardinality(WarnAt) = 1
              /\ \A k \in WarnAt :
                    /\ k < Len(res.effects)
                    /\ Mentions(res.effects[k].text, Outcome(res).value.range)
                    /\ Mentions(res.effects[k].text,
                                ToString(Outcome(res).value.discontinueDate \div TicksPerDay))

\* "10.x" requested by the user, 10.x dated in the future: returned with a
\* warning.
C8_Witness ==
    /\ Called /\ res.engineRange = "10.x" /\ ~res.isAuto
    /\ Returns /\ Outcome(res).value = allOptions[2]
    /\ Warned

-----------------------------------------------------------------------------
(* C9 *)

\* C9: discontinuation is decided anew by every call from the clock: a call
\* that selects a dated option before its date returns it, a call of the
\* same process that selects it at or after the date throws DISCONTINUED,
\* and once a call selecting an option has thrown DISCONTINUED every later
\* call selecting it does.
C9_ReevaluatedEachCall ==
    [][ (Called' /\ res'.how \in {"skipped", "found"}) =>
          /\ (/\ res'.selection.discontinueDate # NoDate
              /\ res'.today < res'.selection.discontinueDate)
                => Returns'
          /\ (/\ res'.selection.discontinueDate # NoDate
              /\ res'.today >= res'.selection.discontinueDate)
                => Throws(DISCONTINUED)'
          /\ res'.selection.range \in failed => Throws(DISCONTINUED)'
      ]_vars

\* An option this process returned earlier, and listed as supported when
\* it was loaded, is now reported discontinued.
C9_Witness ==
    /\ Throws(DISCONTINUED)
    /\ res.selection.range \in returned
    /\ \E k \in 1..Len(supportedOptions) : supportedOptions[k] = res.selection

-----------------------------------------------------------------------------
(* C10 *)

\* C10: every call, for every range string (one semver cannot parse
\* included) and every isAuto, either returns an option of the table or
\* throws INVALID or DISCONTINUED; no other error leaves the function.
\* Read on the released table.
C10_TwoErrorKinds ==
    (ReleasedTable /\ Called) =>
        \/ Returns /\ \E i \in 1..Len(allOptions) : Outcome(res).value = allOptions[i]
        \/ Throws(INVALID)
        \/ Throws(DISCONTINUED)

-----------------------------------------------------------------------------
(* C11 *)

\* The text from token k on.
From(text, k) == SubSeq(text, k, Len(text))

\* A line break, the request to use one of the supported engines, and the
\* module's list of supported ranges.
UseSupported ==
    <<"\n", "Please use one of the following engines in your package.json: ", "[">>
        \o map_range(supportedOptions) \o <<"]">>

\* A line break and the request to add an engines entry naming the newest
\* range.
AddEngines ==
    <<"\n", "Please add engines: { node: ", Newest.range,
      " } to your package.json file.">>

\* A line break and the note on the upstream provider.
UpstreamNote ==
    <<"\n",
      "This change is the result of a decision made by an upstream infrastructure provider (AWS).",
      "\n",
      "Read more: https://docs.aws.amazon.com/lambda/latest/dg/runtime-support-policy.html">>

\* C11: the INVALID message depends on isAuto: with isAuto (or no range) it
\* is the generic "invalid version, must be changed" wording and does not
\* hold the requested range; without isAuto it is the "found engines with an
\* invalid range" wording followed by the requested range; both are followed
\* by the list of supported ranges.
C11_InvalidWording ==
    Throws(INVALID) =>
        LET text == Outcome(res).text IN
        IF res.isAuto \/ ~Truthy(res.engineRange)
        THEN /\ text[1] = "This project is using an invalid version of Node.js and must be changed."
             /\ ~Mentions(text, res.engineRange)
             /\ From(text, 2) = UseSupported
        ELSE /\ text[1] = "Found engines in package.json with an invalid Node.js version range: "
             /\ text[2] = res.engineRange
             /\ From(text, 3) = UseSupported

\* An auto-selected "6.x" is refused with the generic wording.
C11_Witness ==
    /\ Throws(INVALID) /\ res.isAuto /\ res.engineRange = "6.x"
    /\ Len(Outcome(res).text) > 1

-----------------------------------------------------------------------------
(* C12 *)

\* C12: the DISCONTINUED message depends on isAuto and on whether a range
\* was given: with isAuto or no range (undefined or empty) it is the
\* "discontinued version, must be upgraded" wording with the request to add
\* an engines entry; without isAuto and with a range it names the requested
\* range, with the request listing the supported ranges; in every variant
\* the note on the upstream provider follows.
C12_DiscontinuedWording ==
    Throws(DISCONTINUED) =>
        LET text == Outcome(res).text IN
        IF res.isAuto \/ ~Truthy(res.engineRange)
        THEN /\ text[1] = "This project is using a discontinued version of Node.js and must be upgraded."
             /\ From(text, 2) = AddEngines \o UpstreamNote
        ELSE /\ text[1] = "Found engines in package.json with a discontinued Node.js version range: "
             /\ text[2] = res.engineRange
             /\ From(text, 3) = UseSupported \o UpstreamNote

\* The user asked for "8.10.x", which is discontinued.
C12_Witness ==
    /\ Throws(DISCONTINUED) /\ ~res.isAuto /\ res.engineRange = "8.10.x"
    /\ res.selection = Oldest

-----------------------------------------------------------------------------
(* C13 *)

\* C13: idempotence: a call made again with the same range and isAuto at the
\* same instant, after whatever calls came before, gives what the observed
\* call gave (option, or error and message, and warning): no call has
\* changed the table or any state a later call reads.
C13_Idempotent ==
    Called =>
        LET again == getSupportedNodeVersion(res.engineRange, res.isAuto, res.today) IN
        /\ res.today = now
        /\ again.effects = res.effects
        /\ again.selection = res.selection
        /\ Len(allOptions) = 3
        /\ \A i \in 1..2 : allOptions[i].major > allOptions[i + 1].major

\* A call refused as INVALID in a process that was loaded before a date
\* now passed, and in which earlier calls have returned an option and
\* reported one discontinued.
C13_Witness ==
    /\ Throws(INVALID)
    /\ returned # {} /\ failed # {}
    /\ Len(supportedOptions) > Cardinality(SupportedAt(now))

-----------------------------------------------------------------------------
(* C15 *)

\* C15: the boundary of discontinuation: an option whose date equals the
\* instant of the call counts as discontinued and the call selecting it
\* throws DISCONTINUED; an option whose date is one tick later is not, and
\* the call returns it with the warning.
C15_Boundary ==
    (Called /\ res.how \in {"skipped", "found"}) =>
        /\ res.selection.discontinueDate = res.today => Throws(DISCONTINUED)
        /\ res.selection.discontinueDate = res.today + 1 =>
              (Returns /\ Outcome(res).value = res.selection /\ Warned)

\* The call is made on the very instant of the date of the option it
\* selects, an option this process returned before.
C15_Witness ==
    /\ Called /\ res.how = "found"
    /\ res.selection.discontinueDate = res.today
    /\ res.selection.range \in returned
    /\ Throws(DISCONTINUED)

-----------------------------------------------------------------------------
(* C14 *)

\* The value `selection` has in a call run alone when it is about to run
\* the callback on option i (i = 1: the default).
SelectionBefore(i) == IF i = 1 THEN Oldest ELSE allOptions[i - 1]

\* C14: calls in flight together are independent: whatever the interleaving
\* of the callers, a call's settled result is the result of the same call
\* run alone, and its `selection` is at every step what it is in a call run
\* alone: no other call has written it.
C14_CallsIndependent ==
    \A c \in Callers :
        LET f == frames[c]
            alone == getSupportedNodeVersion(f.engineRange, f.isAuto, now)
        IN  /\ f.pc = "scan" => slots[c] = SelectionBefore(f.i)
            /\ f.pc = "check" => (slots[c] = alone.selection /\ f.how = alone.how)
            /\ f.pc = "settled" => f.effects = alone.effects

\* Two calls in flight at once: one has settled on 10.x while the other,
\* which matches nothing, is in the middle of its scan.
C14_Witness ==
    \E c, d \in Callers :
        /\ c # d
        /\ frames[c].pc = "settled" /\ frames[c].engineRange = "<11"
        /\ frames[c].effects[Len(frames[c].effects)].op = "return"
        /\ frames[d].pc = "scan" /\ frames[d].i = 3
        /\ frames[d].engineRange = "8.9.x"

-----------------------------------------------------------------------------
(* C16 *)

\* C16: the request for the normal certificate is issued if and only if the
\* wildcard request gave CantGenerateWildcardCert or DomainConfigurationError,
\* and so only once the wildcard request has completed; createCertForCns is
\* called at most twice per invocation, first for the wildcard names and
\* then for the alias alone; any other error value of the wildcard request is
\* returned with no second request.
C16_FallbackIffWildcardFails ==
    LET n == Len(certRun.requests)
        first == certRun.replies[1]
    IN  /\ n <= 2
        /\ Len(certRun.replies) <= n
        /\ certRun.pc # "idle" => certRun.requests[1].cns = wildcardCns(certRun.alias)
        /\ n = 2 <=> (Len(certRun.replies) >= 1
                      /\ first \in {"CantGenerateWildcardCert", "DomainConfigurationError"})
        /\ n = 2 => certRun.requests[2].cns = <<certRun.alias>>
        /\ (/\ Len(certRun.replies) >= 1
            /\ first \in (ErrorClasses \cup {UntestedError})
                            \ {"CantGenerateWildcardCert", "DomainConfigurationError"})
           => (n = 1 /\ certRun.pc = "done" /\ certRun.outcome = Return(first))

\* The invocation has ended after a fallback that followed a
\* DomainConfigurationError of the wildcard request.
C16_Witness ==
    /\ certRun.pc = "done"
    /\ Len(certRun.requests) = 2
    /\ certRun.replies[1] = "DomainConfigurationError"
    /\ certRun.replies[2] = Certificate

-----------------------------------------------------------------------------
(* C17 *)

\* An attempt, the wildcard one (k = 1) or the fallback (k = 2), gave v.
Gave(k, v) == Len(certRun.replies) >= k /\ certRun.replies[k] = v

\* What C17 says of CantGenerateWildcardCert: never returned; from the
\* wildcard attempt it leads to the fallback, from the fallback it is thrown.
NeverReturnsCantGenerate ==
    /\ certRun.outcome # Return("CantGenerateWildcardCert")
    /\ Gave(1, "CantGenerateWildcardCert") => Len(certRun.requests) = 2
    /\ Gave(2, "CantGenerateWildcardCert") =>
           (certRun.pc = "done" /\ certRun.outcome = Throw("CantGenerateWildcardCert"))

\* C17 as stated: CantGenerateWildcardCert as above, and every other listed
\* error value of either attempt is the value the invocation returns.
C17_AsStated ==
    /\ NeverReturnsCantGenerate
    /\ \A k \in 1..2, v \in ErrorClasses \ {"CantGenerateWildcardCert"} :
           Gave(k, v) => (certRun.pc = "done" => certRun.outcome = Return(v))

\* C17, amended: CantGenerateWildcardCert is never returned (from the
\* wildcard attempt it leads to the fallback, from the fallback it is
\* thrown); every other listed error value of either attempt is returned as
\* a value, not thrown, except a DomainConfigurationError of the wildcard
\* attempt, which is dropped for the fallback like CantGenerateWildcardCert.
C17_ErrorsReturnedNotThrown ==
    /\ NeverReturnsCantGenerate
    /\ Gave(1, "DomainConfigurationError") => Len(certRun.requests) = 2
    /\ \A k \in 1..2, v \in ErrorClasses \ {"CantGenerateWildcardCert"} :
           (Gave(k, v) /\ ~(k = 1 /\ v = "DomainConfigurationError"))
               => (certRun.pc = "done" /\ certRun.outcome = Return(v))

\* The fallback that followed a CantGenerateWildcardCert gave the same
\* error, and the invocation ended by throwing it.
C17_Witness ==
    /\ certRun.pc = "done"
    /\ Gave(1, "CantGenerateWildcardCert")
    /\ Gave(2, "CantGenerateWildcardCert")
    /\ certRun.outcome.op = "throw"

-----------------------------------------------------------------------------
(* C18 *)

\* The calls made so far are injectPlugins on d, then a cleanupGatsbyFiles
\* on d that ran to its end.
InjectedThenCleaned(d) ==
    /\ Len(calls) = 2
    /\ calls[1].op = "injectPlugins" /\ calls[1].dir = d
    /\ calls[2].op = "cleanupGatsbyFiles" /\ calls[2].dir = d
    /\ calls[2].result = "done"

\* C18: round trip: whatever gatsby-config and gatsby-node the user has
\* (.ts, .mjs or .js, any content, the empty one too, or none) and whatever
\* plugins are injected, injectPlugins followed by cleanupGatsbyFiles on the
\* same directory leaves the directory as the user had it: every user file
\* at its path with its content, no generated file, no backup file.
C18_RoundTrip ==
    \A d \in Dirs : InjectedThenCleaned(d) => files[d] = userFiles[d]

-----------------------------------------------------------------------------
(* C19 *)

\* injectPlugins has been called on d, and nothing has cleaned d.
OnlyInjected(d) ==
    /\ \E i \in 1..Len(calls) : calls[i].dir = d
    /\ \A i \in 1..Len(calls) : calls[i].dir = d => calls[i].op = "injectPlugins"

\* C19: after any number of injectPlugins calls on a directory with no
\* cleanup in between, every backup file in it holds the content of the
\* user's original file of that name, and the file at the original path is
\* the generated wrapper.
C19_BackupKept ==
    \A d \in Dirs :
        OnlyInjected(d) =>
            \A p \in DOMAIN files[d] :
                p.backup =>
                    LET orig == File(p.name, p.ending, FALSE) IN
                    /\ orig \in DOMAIN userFiles[d]
                    /\ files[d][p] = userFiles[d][orig]
                    /\ orig \in DOMAIN files[d]
                    /\ files[d][orig] = Wrapper(p.name, p.ending)

-----------------------------------------------------------------------------
(* C20 *)

\* The calls that registered the exit handler.
Registrations == {i \in 1..Len(calls) : calls[i].by # ""}

\* The runs of a registered handler at process exit.
HandlerRuns == {i \in 1..Len(calls) : calls[i].op = "exit handler"}

\* C20: over any sequence of injectPlugins calls in one process, whatever
\* the versions and directories, the exit handler is registered at most
\* once, and by a call whose detected version satisfies >=4.0.0; the handler
\* cleans the directory of the call that registered it: that directory is
\* what its closure holds and what it is run on when the process exits.
C20_OneExitHandler ==
    /\ Cardinality(Registrations) <= 1
    /\ Len(process.exitListeners) <= 1
    /\ Cardinality(HandlerRuns) <= 1
    /\ Registrations = {} =>
           (GLOBAL_EXIT_HANDLER = Undefined /\ process.exitListeners = <<>>
            /\ HandlerRuns = {})
    /\ \A i \in Registrations :
           /\ calls[i].op = "injectPlugins"
           /\ calls[i].by = "4.0.0"
           /\ GLOBAL_EXIT_HANDLER = calls[i].dir
           /\ \A k \in 1..Len(process.exitListeners) :
                  process.exitListeners[k] = calls[i].dir
           /\ \A j \in HandlerRuns : calls[j].dir = calls[i].dir /\ i < j

\* Two calls added the builder plugin, for /docs and then for /site; the
\* process has exited and the handler ran on /docs.
C20_Witness ==
    /\ process.exited
    /\ Len(calls) >= 3
    /\ calls[1].op = "injectPlugins" /\ calls[1].dir = "/docs" /\ calls[1].by = "4.0.0"
    /\ calls[2].op = "injectPlugins" /\ calls[2].dir = "/site"
    /\ files["/site"] # userFiles["/site"]
    /\ \E j \in HandlerRuns : calls[j].dir = "/docs"

-----------------------------------------------------------------------------
(* C21 *)

\* The last call was made with the empty string as its range.
CalledWithEmpty == Called /\ res.engineRange = ""

\* What the same call does when the range is absent.
WithoutRange(isAuto) == getSupportedNodeVersion(Undefined, isAuto, res.today)

\* C21: a call whose range is the empty string goes exactly like the call
\* without a range: no option is tested for intersection, the selection is
\* the oldest option, the call returns it or fails with DISCONTINUED (never
\* INVALID, nor any other error), and its texts are those of an
\* auto-selected range whatever isAuto is: the "using a discontinued version"
\* error with the request to add engines, the "Using default Node.js range"
\* debug line.
C21_EmptyLikeAbsent ==
    CalledWithEmpty =>
        /\ res.how = "skipped"
        /\ res.selection = Oldest
        /\ IF Past(Oldest, res.today)
           THEN /\ Throws(DISCONTINUED)
                /\ Outcome(res).text[1] =
                       "This project is using a discontinued version of Node.js and must be upgraded."
                /\ From(Outcome(res).text, 2) = AddEngines \o UpstreamNote
           ELSE /\ Returns /\ Outcome(res).value = Oldest
                /\ res.effects[1].op = "debug"
                /\ res.effects[1].text = <<"Using default Node.js range: ", Oldest.range>>
        /\ ~Throws(INVALID)
        /\ res.effects = WithoutRange(res.isAuto).effects
        /\ res.effects = WithoutRange(TRUE).effects
        /\ res.effects = WithoutRange(FALSE).effects

\* A call with the empty range and isAuto false has failed with DISCONTINUED
\* on the oldest option, while newer options that the empty range
\* intersects are still supported.
C21_Witness ==
    /\ CalledWithEmpty
    /\ ~res.isAuto
    /\ Throws(DISCONTINUED)
    /\ ~Past(Newest, res.today)
    /\ intersects(Newest.range, "")

=============================================================================
